---- MODULE Spec2Model ----
(***************************************************************************)
(* rsync.go: block hashing (CalculateBlockHashes), the greedy differ       *)
(* (CalculateDifferences, a goroutine sending RSyncOp values on a channel) *)
(* and the reconstructor (ApplyOps, ranging over that channel).            *)
(*                                                                         *)
(* Spec      : the pipeline of the tests (hashes := CalculateBlockHashes;  *)
(*             go CalculateDifferences; ApplyOps(original, ch, len(mod))). *)
(* SpecApply : ApplyOps alone, fed by an arbitrary sender.                 *)
(* SpecCancel: the pipeline with a receiver that may stop receiving.       *)
(* SpecWeak  : weakHash alone, run step by step on a window.               *)
(* SpecText  : the pipeline on the text file pair of Test_Result.          *)
(***************************************************************************)
EXTENDS Integers, Sequences, FiniteSets, TLC

\* ---------------------------------------------------------------- bounds
\* longest content buffer (original and modified)
MaxLen == 4
\* largest channel capacity (0 = unbuffered, as the tests make it)
MaxCap == 1
\* bytes of the reference slice's backing array past its length (cap - len)
MaxSpare == 1
\* SpecApply: the same, for the reference slice handed to ApplyOps alone
MaxSpareApply == 2
\* SpecApply: most operations the arbitrary sender sends
MaxOps == 2
\* SpecApply: longest DATA payload the arbitrary sender sends
MaxData == 1
\* SpecApply: largest block index the arbitrary sender sends
MaxIndex == 2
\* SpecWeak: longest window handed to weakHash (besides the test's fixture)
MaxWindow == 3

\* byte values the buffers are drawn from
Bytes == {0, 255}
\* SpecWeak: byte values the windows are drawn from
WeakBytes == {0, 1, 255}

\* ------------------------------------------------------ program constants
BlockSize == 2
M == 65536
BLOCK == 0
DATA == 1

\* ----------------------------------------------------------------- helpers
min(a, b) == IF a < b THEN a ELSE b

\* sequences over S of length at most n
BSeq(S, n) == UNION {[1..k -> S] : k \in 0..n}

\* Go's s[lo:hi] of a sequence (0-based, hi exclusive)
Slice(s, lo, hi) == SubSeq(s, lo + 1, hi)

RECURSIVE SumA(_)
SumA(v) == IF v = <<>> THEN 0 ELSE Head(v) + SumA(Tail(v))

\* sum of (len(v)-1-i+1) * v[i]: the head of v carries weight Len(v)
RECURSIVE SumB(_)
SumB(v) == IF v = <<>> THEN 0 ELSE Len(v) * Head(v) + SumB(Tail(v))

\* uint32 accumulators a, b wrap modulo 2^32; M divides 2^32, so a % M and
\* b % M are the residues of the unbounded sums modulo M
weakHash(v) == <<(SumA(v) % M) + M * (SumB(v) % M), SumA(v) % M, SumB(v) % M>>

\* md5 digest, taken as collision-free: a digest is represented by the bytes
\* it digests, so two digests are equal exactly when the blocks are
strongHash(v) == v

\* getBlocksNumber without the block for the remainder
getBlocksNumber_Floor(content) == Len(content) \div BlockSize

getBlocksNumber(content) ==
    Len(content) \div BlockSize
        + (IF Len(content) % BlockSize # 0 THEN 1 ELSE 0)

CalculateBlockHashes(content) ==
    [j \in 1..getBlocksNumber(content) |->
        LET i == j - 1
            initialByte == i * BlockSize
            endingByte0 == min((i + 1) * BlockSize, Len(content))
            block == Slice(content, initialByte, endingByte0)
        IN [index |-> i, strongHash |-> strongHash(block),
            weakHash |-> weakHash(block)[1]]]

\* hashesMap of CalculateDifferences: weak hash -> the BlockHash values with
\* that weak hash, in the order of the hash list
BuildHashesMap(hs) ==
    [k \in {hs[j].weakHash : j \in 1..Len(hs)} |->
        SelectSeq(hs, LAMBDA h : h.weakHash = k)]

\* searchStrongHash that finds nothing
searchStrongHash_Never(l, hashValue) == <<FALSE, 0>>

\* searchStrongHash that keeps scanning and returns the last match
RECURSIVE searchStrongHash_Last(_, _)
searchStrongHash_Last(l, hashValue) ==
    IF l = <<>> THEN <<FALSE, 0>>
    ELSE IF searchStrongHash_Last(Tail(l), hashValue)[1]
         THEN searchStrongHash_Last(Tail(l), hashValue)
    ELSE IF Head(l).strongHash = hashValue THEN <<TRUE, Head(l).index>>
    ELSE <<FALSE, 0>>

\* searchStrongHash: <<found, index of the first entry with that strong hash>>
RECURSIVE searchStrongHash(_, _)
searchStrongHash(l, hashValue) ==
    IF l = <<>> THEN <<FALSE, 0>>
    ELSE IF Head(l).strongHash = hashValue THEN <<TRUE, Head(l).index>>
    ELSE searchStrongHash(Tail(l), hashValue)

BlockOp(i) == [opCode |-> BLOCK, data |-> <<>>, blockIndex |-> i]
DataOp(d) == [opCode |-> DATA, data |-> d, blockIndex |-> 0]

Zeros(n) == [k \in 1..n |-> 0]

\* ------------------------------------------------------------------- state
VARIABLES
    original,       \* reference content (ApplyOps' content)
    spare,          \* bytes of original's backing array past len(original)
    modified,       \* target content (CalculateDifferences' content)
    fileSize,       \* ApplyOps' fileSize argument
    chanCap,        \* capacity of the operation channel
    hashes,         \* the hash list handed to CalculateDifferences
    ppc,            \* position of the sender
    hashesMap, offset, previousMatch, aweak, bweak, weak, dirty, isRolling,
    endingByte,     \* endingByte of the iteration blocked in a send
    found,          \* blockHash.index of the iteration blocked in a send
    queue,          \* operations buffered in the channel
    closes,         \* number of close(opsChannel) calls made
    sent,           \* every operation sent so far, in order
    cpc,            \* position of ApplyOps
    result, applyOffset,
    op,             \* ApplyOps' loop variable
    wpc,            \* position of a weakHash call run on its own
    wv, wi, wa, wb, \* that call's v, i, a, b
    wret            \* and what it returned

\* a weakHash call run on its own (Test_WeakHash); the pipeline leaves it alone
weakRun == <<wpc, wv, wi, wa, wb, wret>>
inputs == <<original, spare, modified, fileSize, chanCap, weakRun>>
differ == <<hashesMap, offset, previousMatch, aweak, bweak, weak, dirty,
            isRolling, endingByte, found>>
applier == <<cpc, result, applyOffset, op>>
vars == <<inputs, hashes, ppc, differ, queue, closes, sent, applier>>

NoOp == BlockOp(0)

WeakIdle ==
    /\ wpc = "idle" /\ wv = <<>>
    /\ wi = 0 /\ wa = 0 /\ wb = 0 /\ wret = <<>>

InitCommon ==
    /\ WeakIdle
    /\ chanCap \in 0..MaxCap
    /\ hashes = <<>>
    /\ hashesMap = <<>>
    /\ offset = 0 /\ previousMatch = 0
    /\ aweak = 0 /\ bweak = 0 /\ weak = 0
    /\ dirty = FALSE /\ isRolling = FALSE
    /\ endingByte = 0 /\ found = 0
    /\ queue = <<>> /\ closes = 0 /\ sent = <<>>
    /\ result = <<>> /\ applyOffset = 0 /\ op = NoOp

\* before the test body runs
Init ==
    /\ original \in BSeq(Bytes, MaxLen)
    /\ spare \in BSeq(Bytes, MaxSpare)
    /\ modified \in BSeq(Bytes, MaxLen)
    /\ fileSize = Len(modified)
    /\ ppc = "main" /\ cpc = "main"
    /\ InitCommon

\* ------------------------------------------------------------- the channel
\* ch <- o. Unbuffered: the send completes when ApplyOps is at its receive
\* and takes the value. Buffered: the send completes when there is room.
Send(o) ==
    /\ sent' = Append(sent, o)
    /\ IF chanCap = 0
       THEN /\ cpc = "recv"
            /\ cpc' = "apply"
            /\ op' = o
            /\ UNCHANGED <<queue, result, applyOffset>>
       ELSE /\ Len(queue) < chanCap
            /\ queue' = Append(queue, o)
            /\ UNCHANGED applier

\* ------------------------------------------------------------ test body
\* hashes := CalculateBlockHashes(original); opsChannel := make(chan RSyncOp);
\* go CalculateDifferences(modified, hashes, opsChannel); ApplyOps(...) is called
TestSync ==
    /\ ppc = "main" /\ cpc = "main"
    /\ hashes' = CalculateBlockHashes(original)
    /\ ppc' = "start" /\ cpc' = "start"
    /\ UNCHANGED <<inputs, differ, queue, closes, sent, result, applyOffset, op>>

\* ------------------------------------------------- CalculateDifferences
\* lines 120-136: the hash map is built, the locals are zero
DiffStart ==
    /\ ppc = "start"
    /\ hashesMap' = BuildHashesMap(hashes)
    /\ ppc' = "loop"
    /\ UNCHANGED <<inputs, hashes, offset, previousMatch, aweak, bweak, weak,
                   dirty, isRolling, endingByte, found, queue, closes, sent,
                   applier>>

\* line 140
EndingByte(o) == min(o + BlockSize, Len(modified) - 1)
\* line 141
Block(o) == Slice(modified, o, EndingByte(o))

\* lines 143-154: <<weak, aweak, bweak>> of the iteration at offset
\* (uint32 arithmetic followed by % M: the residue modulo M)
Hash ==
    IF ~isRolling
    THEN weakHash(Block(offset))
    ELSE LET e == EndingByte(offset)
             a == (aweak - modified[offset] + modified[e]) % M
             b == (bweak - (e - offset) * modified[offset] + a) % M
         IN <<a + M * b, a, b>>

\* lines 156-160: <<blockFound, blockHash.index>>
Lookup ==
    LET w == Hash[1]
    IN IF w \in DOMAIN hashesMap
       THEN searchStrongHash(hashesMap[w], strongHash(Block(offset)))
       ELSE <<FALSE, 0>>

\* one iteration that finds no block: lines 138-160, 177-179
DiffMiss ==
    /\ ppc = "loop"
    /\ offset < Len(modified)
    /\ ~Lookup[1]
    /\ weak' = Hash[1] /\ aweak' = Hash[2] /\ bweak' = Hash[3]
    /\ isRolling' = TRUE
    /\ dirty' = TRUE
    /\ offset' = offset + 1
    /\ UNCHANGED <<inputs, hashes, ppc, hashesMap, previousMatch, endingByte,
                   found, queue, closes, sent, applier>>

\* one iteration that finds a block, up to its first send: lines 138-162
DiffMatch ==
    /\ ppc = "loop"
    /\ offset < Len(modified)
    /\ Lookup[1]
    /\ weak' = Hash[1] /\ aweak' = Hash[2] /\ bweak' = Hash[3]
    /\ isRolling' = TRUE
    /\ endingByte' = EndingByte(offset)
    /\ found' = Lookup[2]
    /\ ppc' = IF dirty THEN "sendData" ELSE "sendBlock"
    /\ UNCHANGED <<inputs, hashes, hashesMap, offset, previousMatch, dirty,
                   queue, closes, sent, applier>>

\* lines 164-165
DiffSendData ==
    /\ ppc = "sendData"
    /\ Send(DataOp(Slice(modified, previousMatch, offset)))
    /\ dirty' = FALSE
    /\ ppc' = "sendBlock"
    /\ UNCHANGED <<inputs, hashes, hashesMap, offset, previousMatch, aweak,
                   bweak, weak, isRolling, endingByte, found, closes>>

\* lines 168-173
DiffSendBlock ==
    /\ ppc = "sendBlock"
    /\ Send(BlockOp(found))
    /\ previousMatch' = endingByte
    /\ isRolling' = FALSE
    /\ offset' = offset + BlockSize
    /\ endingByte' = 0 /\ found' = 0
    /\ ppc' = "loop"
    /\ UNCHANGED <<inputs, hashes, hashesMap, aweak, bweak, weak, dirty,
                   closes>>

\* DiffExit without the final flush of lines 183-185
DiffExit_NoFlush ==
    /\ ppc = "loop"
    /\ offset >= Len(modified)
    /\ ppc' = "close"
    /\ UNCHANGED <<inputs, hashes, differ, queue, closes, sent, applier>>

\* DiffExit with close(opsChannel) called at the loop's end instead of deferred
DiffExit_CloseFirst ==
    /\ ppc = "loop"
    /\ offset >= Len(modified)
    /\ closes' = closes + 1
    /\ ppc' = IF dirty THEN "sendFinal" ELSE "done"
    /\ UNCHANGED <<inputs, hashes, differ, queue, sent, applier>>

\* line 138 false, then lines 183-185
DiffExit ==
    /\ ppc = "loop"
    /\ offset >= Len(modified)
    /\ ppc' = IF dirty THEN "sendFinal" ELSE "close"
    /\ UNCHANGED <<inputs, hashes, differ, queue, closes, sent, applier>>

\* line 184
DiffSendFinal ==
    /\ ppc = "sendFinal"
    /\ Send(DataOp(Slice(modified, previousMatch, Len(modified))))
    /\ ppc' = "close"
    /\ UNCHANGED <<inputs, hashes, differ, closes>>

\* line 121: the deferred close(opsChannel)
DiffClose ==
    /\ ppc = "close"
    /\ closes' = closes + 1
    /\ ppc' = "done"
    /\ UNCHANGED <<inputs, hashes, differ, queue, sent, applier>>

\* ----------------------------------------------------------------- ApplyOps
\* lines 93-96
ApplyStart ==
    /\ cpc = "start"
    /\ result' = Zeros(fileSize)
    /\ applyOffset' = 0
    /\ cpc' = "recv"
    /\ UNCHANGED <<inputs, hashes, ppc, differ, queue, closes, sent, op>>

\* ApplyRecv that leaves the received operation in the channel
ApplyRecv_NoDequeue ==
    /\ cpc = "recv"
    /\ queue # <<>>
    /\ op' = Head(queue)
    /\ cpc' = "apply"
    /\ UNCHANGED <<inputs, hashes, ppc, differ, queue, closes, sent, result,
                   applyOffset>>

\* line 97: a buffered operation is received
ApplyRecv ==
    /\ cpc = "recv"
    /\ queue # <<>>
    /\ op' = Head(queue)
    /\ queue' = Tail(queue)
    /\ cpc' = "apply"
    /\ UNCHANGED <<inputs, hashes, ppc, differ, closes, sent, result,
                   applyOffset>>

\* the reference slice's backing array: len(original) bytes, then the spare
Backing == original \o spare

\* Go panics on s[lo:hi] unless 0 <= lo <= hi <= cap(s)
SliceOK(lo, hi, cap) == 0 <= lo /\ lo <= hi /\ hi <= cap

\* the slice expressions of lines 101 and 105 are within capacity
\* (make([]byte, fileSize) has capacity fileSize)
OpInCap(o) ==
    IF o.opCode = BLOCK
    THEN /\ SliceOK(applyOffset, applyOffset + BlockSize, fileSize)
         /\ SliceOK(o.blockIndex * BlockSize,
                    o.blockIndex * BlockSize + BlockSize, Len(Backing))
    ELSE SliceOK(applyOffset, fileSize, fileSize)

\* copy(dst, src) into result at position at: min(len(dst), len(src)) bytes
Copy(res, at, room, src) ==
    [k \in 1..Len(res) |->
        IF at < k /\ k <= at + min(room, Len(src))
        THEN src[k - at] ELSE res[k]]

\* lines 99-102
ApplyBlock ==
    /\ cpc = "apply"
    /\ op.opCode = BLOCK
    /\ OpInCap(op)
    /\ result' = Copy(result, applyOffset, BlockSize,
                      Slice(Backing, op.blockIndex * BlockSize,
                            op.blockIndex * BlockSize + BlockSize))
    /\ applyOffset' = applyOffset + BlockSize
    /\ cpc' = "recv"
    /\ UNCHANGED <<inputs, hashes, ppc, differ, queue, closes, sent, op>>

\* lines 104-106
ApplyData ==
    /\ cpc = "apply"
    /\ op.opCode = DATA
    /\ OpInCap(op)
    /\ result' = Copy(result, applyOffset, fileSize - applyOffset, op.data)
    /\ applyOffset' = applyOffset + Len(op.data)
    /\ cpc' = "recv"
    /\ UNCHANGED <<inputs, hashes, ppc, differ, queue, closes, sent, op>>

\* lines 101, 105: slice bounds out of range, a run-time panic
ApplyPanic ==
    /\ cpc = "apply"
    /\ ~OpInCap(op)
    /\ cpc' = "panic"
    /\ UNCHANGED <<inputs, hashes, ppc, differ, queue, closes, sent, result,
                   applyOffset, op>>

\* lines 97, 109: the channel is closed and drained, result is returned
ApplyReturn ==
    /\ cpc = "recv"
    /\ queue = <<>>
    /\ closes > 0
    /\ cpc' = "returned"
    /\ UNCHANGED <<inputs, hashes, ppc, differ, queue, closes, sent, result,
                   applyOffset, op>>

\* ------------------------------------------------------------ specification
Next ==
    \/ TestSync
    \/ DiffStart
    \/ DiffMiss
    \/ DiffMatch
    \/ DiffSendData
    \/ DiffSendBlock
    \/ DiffExit
    \/ DiffSendFinal
    \/ DiffClose
    \/ ApplyStart
    \/ ApplyRecv
    \/ ApplyBlock
    \/ ApplyData
    \/ ApplyPanic
    \/ ApplyReturn

Spec == Init /\ [][Next]_vars

\* ------------------------------------------- ApplyOps with any sender
\* operations an arbitrary sender may put on the channel
AnyOps ==
    {BlockOp(i) : i \in -1..MaxIndex} \cup {DataOp(d) : d \in BSeq(Bytes, MaxData)}

InitApply ==
    /\ original \in BSeq(Bytes, MaxLen)
    /\ spare \in BSeq(Bytes, MaxSpareApply)
    /\ modified = <<>>
    /\ fileSize \in 0..MaxLen
    /\ ppc = "sender" /\ cpc = "start"
    /\ InitCommon

SenderSend ==
    /\ ppc = "sender"
    /\ Len(sent) < MaxOps
    /\ \E o \in AnyOps : Send(o)
    /\ UNCHANGED <<inputs, hashes, ppc, differ, closes>>

SenderClose ==
    /\ ppc = "sender"
    /\ closes' = closes + 1
    /\ ppc' = "done"
    /\ UNCHANGED <<inputs, hashes, differ, queue, sent, applier>>

NextApply ==
    \/ SenderSend
    \/ SenderClose
    \/ ApplyStart
    \/ ApplyRecv
    \/ ApplyBlock
    \/ ApplyData
    \/ ApplyPanic
    \/ ApplyReturn

SpecApply == InitApply /\ [][NextApply]_vars

\* ------------------------------------------------------------------ claims
nBlocks == getBlocksNumber(original)

\* the true bytes of reference block i
RefBlock(i) ==
    Slice(original, i * BlockSize, min((i + 1) * BlockSize, Len(original)))

\* the bytes an operation denotes
Denote(o) == IF o.opCode = DATA THEN o.data ELSE RefBlock(o.blockIndex)

RECURSIVE Transcript(_)
Transcript(ops) ==
    IF ops = <<>> THEN <<>> ELSE Denote(Head(ops)) \o Transcript(Tail(ops))

\* C1: round trip - when ApplyOps ends in the pipeline of the tests, it has
\* returned (not panicked) and the returned buffer equals modified.
C1_RoundTrip ==
    cpc \in {"returned", "panic"} => (cpc = "returned" /\ result = modified)

\* C2: identity - when modified = original, the finished stream holds only
\* BLOCK operations, one per reference block, the k-th denoting the bytes of
\* reference block k-1, and no DATA operation.
C2_Identity ==
    (ppc = "done" /\ modified = original) =>
        /\ Len(sent) = nBlocks
        /\ \A k \in 1..Len(sent) :
            /\ sent[k].opCode = BLOCK
            /\ RefBlock(sent[k].blockIndex) = RefBlock(k - 1)

\* the window at offset o: content[o : min(o+BlockSize, len(content))]
WindowAt(o) == Slice(modified, o, min(o + BlockSize, Len(modified)))

NoSharedBlock ==
    \A o \in 0..(Len(modified) - 1) : \A i \in 0..(nBlocks - 1) :
        WindowAt(o) # RefBlock(i)

\* C3: full rewrite - when no window of (a non-empty) modified equals a block
\* of original, the finished stream is the one operation DATA(modified).
C3_FullRewrite ==
    (ppc = "done" /\ modified # <<>> /\ NoSharedBlock) =>
        sent = <<DataOp(modified)>>

\* C4: transcript completeness - when CalculateDifferences has finished, the
\* bytes its operations denote, concatenated in stream order, are modified.
C4_TranscriptComplete ==
    ppc = "done" => Transcript(sent) = modified

\* the index of a trailing reference block shorter than BlockSize
IsPartialLast(i) == Len(original) % BlockSize # 0 /\ i = nBlocks - 1

\* C5: partial trailing block - the step of ApplyOps that handles a BLOCK
\* operation on the shorter trailing reference block copies exactly the
\* remainder bytes of that block and advances the cursor by the remainder.
C5_PartialTrailingBlock ==
    [][(cpc = "apply" /\ cpc' # "apply" /\ op.opCode = BLOCK
            /\ IsPartialLast(op.blockIndex)) =>
        LET rem == Len(original) % BlockSize
        IN /\ cpc' = "recv"
           /\ applyOffset' = applyOffset + rem
           /\ result' = Copy(result, applyOffset, rem, RefBlock(op.blockIndex))
      ]_vars

\* every index CalculateDifferences reads at its current position is inside
\* content
DifferInBounds ==
    /\ (ppc = "loop" /\ offset < Len(modified)) =>
        /\ 0 <= offset /\ offset <= EndingByte(offset)
        /\ EndingByte(offset) <= Len(modified)
        /\ isRolling =>
            /\ offset - 1 \in 0..(Len(modified) - 1)
            /\ EndingByte(offset) - 1 \in 0..(Len(modified) - 1)
    /\ ppc = "sendData" =>
        0 <= previousMatch /\ previousMatch <= offset /\ offset <= Len(modified)
    /\ ppc = "sendFinal" =>
        0 <= previousMatch /\ previousMatch <= Len(modified)

\* every index ApplyOps is about to read lies inside the reference content
\* and every index it is about to write lies inside the output buffer
ApplierInBounds ==
    cpc = "apply" =>
        IF op.opCode = BLOCK
        THEN /\ SliceOK(applyOffset, applyOffset + BlockSize, fileSize)
             /\ SliceOK(op.blockIndex * BlockSize,
                        op.blockIndex * BlockSize + BlockSize, Len(original))
        ELSE SliceOK(applyOffset, applyOffset + Len(op.data), fileSize)

\* C6: bounds safety end to end - in the pipeline neither process reads
\* outside the buffer it reads nor writes outside the output buffer.
C6_BoundsSafe == DifferInBounds /\ ApplierInBounds

\* C7: malformed input - ApplyOps never returns a buffer after it received
\* a BLOCK operation whose index is outside 0..nBlocks-1.
C7_MalformedInputFails ==
    cpc = "returned" =>
        \A k \in 1..Len(sent) :
            sent[k].opCode = BLOCK => sent[k].blockIndex \in 0..(nBlocks - 1)

\* C8: length mismatch - ApplyOps never returns a buffer when the bytes the
\* operations contributed (its cursor at stream close) differ from fileSize.
C8_LengthMismatchFails ==
    cpc = "returned" => applyOffset = fileSize

\* both processes have ended normally
Finished == ppc = "done" /\ cpc = "returned"

\* C9: empty content - an empty reference gives an empty hash list; an empty
\* target gives no operation and a closed stream; an empty hash list with a
\* non-empty target gives the one operation DATA(target); in none of these
\* cases does the pipeline panic or get stuck, and with an empty target
\* ApplyOps returns the empty buffer.
C9_EmptyContent ==
    /\ (ppc # "main" /\ original = <<>>) => hashes = <<>>
    /\ modified = <<>> => sent = <<>>
    /\ (ppc = "done" /\ modified = <<>>) => closes = 1
    /\ (ppc = "done" /\ hashes = <<>> /\ modified # <<>>) =>
        sent = <<DataOp(modified)>>
    /\ (original = <<>> \/ modified = <<>>) =>
        /\ cpc # "panic"
        /\ Finished \/ ENABLED Next
    /\ (cpc = "returned" /\ modified = <<>>) => result = <<>>

C9_Witness ==
    /\ Finished
    /\ original = <<>> /\ Len(modified) = 3
    /\ sent = <<DataOp(modified)>>
    /\ result = modified

\* C10: stream closure - the channel is closed at most once, and only by the
\* finished CalculateDifferences; nothing is sent once it is closed; ApplyOps
\* returns only from its receive, with the channel closed and drained.
C10_StreamClosure ==
    /\ [](closes <= 1 /\ (closes = 1 <=> ppc = "done"))
    /\ [][closes > 0 => sent' = sent]_vars
    /\ [][(cpc # "returned" /\ cpc' = "returned") =>
            (cpc = "recv" /\ closes = 1 /\ queue = <<>>)]_vars

C10_Witness ==
    /\ Finished
    /\ closes = 1
    /\ Len(sent) >= 2

\* ------------------------------------- a receiver that may stop receiving
\* the receiver gives up before the channel is closed: it stops ranging over
\* the channel (its caller returned, or recovered from a panic) and never
\* receives again
ReceiverAbandon ==
    /\ cpc \in {"recv", "apply"}
    /\ closes = 0
    /\ cpc' = "abandoned"
    /\ UNCHANGED <<inputs, hashes, ppc, differ, queue, closes, sent, result,
                   applyOffset, op>>

NextCancel ==
    \/ Next
    \/ ReceiverAbandon

SpecCancel == Init /\ [][NextCancel]_vars

\* the steps of CalculateDifferences
DiffNext ==
    \/ DiffStart
    \/ DiffMiss
    \/ DiffMatch
    \/ DiffSendData
    \/ DiffSendBlock
    \/ DiffExit
    \/ DiffSendFinal
    \/ DiffClose

\* C11: cancellation - once the receiver has stopped receiving (abandoned
\* the stream or panicked), CalculateDifferences has ended or can still take
\* a step: it is never left blocked in a send that nothing will ever take.
C11_Cancellation ==
    cpc \in {"abandoned", "panic"} => (ppc = "done" \/ ENABLED DiffNext)

\* C12: rolling equivalence - every loop iteration of CalculateDifferences
\* that rolls (isRolling true) leaves in (weak, aweak, bweak) the weak hash
\* of its window content[offset:endingByte] computed from scratch.
C12_RollingEquivalence ==
    [][(ppc = "loop" /\ offset < Len(modified) /\ isRolling
            /\ (offset' # offset \/ ppc' # ppc)) =>
        <<weak', aweak', bweak'>> = weakHash(Block(offset))
      ]_vars

\* ----------------------------------------------- weakHash, run on its own
\* Test_WeakHash's content
Fixture == [k \in 1..10 |-> k - 1]

InitWeak ==
    /\ wv \in BSeq(WeakBytes, MaxWindow) \cup {Fixture}
    /\ wpc = "loop"
    /\ wi = 0 /\ wa = 0 /\ wb = 0 /\ wret = <<>>
    /\ original = <<>> /\ spare = <<>> /\ modified = <<>> /\ fileSize = 0
    /\ chanCap = 0
    /\ ppc = "idle" /\ cpc = "idle"
    /\ hashes = <<>> /\ hashesMap = <<>>
    /\ offset = 0 /\ previousMatch = 0
    /\ aweak = 0 /\ bweak = 0 /\ weak = 0
    /\ dirty = FALSE /\ isRolling = FALSE
    /\ endingByte = 0 /\ found = 0
    /\ queue = <<>> /\ closes = 0 /\ sent = <<>>
    /\ result = <<>> /\ applyOffset = 0 /\ op = NoOp

pipeline == <<original, spare, modified, fileSize, chanCap, hashes, ppc,
              differ, queue, closes, sent, applier>>

\* lines 210-213 with the weight of v[i] one too small
WeakStep_OffByOne ==
    /\ wpc = "loop"
    /\ wi < Len(wv)
    /\ wa' = wa + wv[wi + 1]
    /\ wb' = wb + (Len(wv) - 1 - wi) * wv[wi + 1]
    /\ wi' = wi + 1
    /\ UNCHANGED <<wpc, wv, wret, pipeline>>

\* lines 210-213: one iteration of the loop over v (the uint32 sums of the
\* windows checked stay far below 2^32)
WeakStep ==
    /\ wpc = "loop"
    /\ wi < Len(wv)
    /\ wa' = wa + wv[wi + 1]
    /\ wb' = wb + ((Len(wv) - 1) - wi + 1) * wv[wi + 1]
    /\ wi' = wi + 1
    /\ UNCHANGED <<wpc, wv, wret, pipeline>>

\* line 214
WeakReturn ==
    /\ wpc = "loop"
    /\ wi >= Len(wv)
    /\ wret' = <<(wa % M) + (M * (wb % M)), wa % M, wb % M>>
    /\ wpc' = "returned"
    /\ UNCHANGED <<wv, wi, wa, wb, pipeline>>

NextWeak ==
    \/ WeakStep
    \/ WeakReturn

SpecWeak == InitWeak /\ [][NextWeak]_vars

\* sum of v[i] for i < n, and of (len(v) - i) * v[i] for i < n (i from 0)
RECURSIVE SigmaA(_, _)
SigmaA(v, n) == IF n = 0 THEN 0 ELSE v[n] + SigmaA(v, n - 1)
RECURSIVE SigmaB(_, _)
SigmaB(v, n) ==
    IF n = 0 THEN 0 ELSE (Len(v) - (n - 1)) * v[n] + SigmaB(v, n - 1)

\* C13: weak checksum - weakHash(v) returns (a + 65536 * b, a, b) with
\* a = (sum of v[i]) mod 65536 and b = (sum of (len(v) - i) * v[i]) mod 65536;
\* for v = [0, 1, ..., 9] that is (10813485, 45, 165).
C13_WeakChecksum ==
    wpc = "returned" =>
        /\ wret[2] = SigmaA(wv, Len(wv)) % 65536
        /\ wret[3] = SigmaB(wv, Len(wv)) % 65536
        /\ wret[1] = wret[2] + 65536 * wret[3]
        /\ wv = <<0, 1, 2, 3, 4, 5, 6, 7, 8, 9>> => wret = <<10813485, 45, 165>>
        /\ wret = weakHash(wv)

C13_Witness ==
    /\ wpc = "returned"
    /\ Len(wv) = 10
    /\ wret = <<10813485, 45, 165>>

\* --------------------------------------------- the test's text file pair
\* "some text\r\n" and "some extra text\r\n" (Test_Result)
TextOriginal == <<115, 111, 109, 101, 32, 116, 101, 120, 116, 13, 10>>
TextModified ==
    <<115, 111, 109, 101, 32, 101, 120, 116, 114, 97, 32, 116, 101, 120, 116,
      13, 10>>

InitText ==
    /\ original = TextOriginal
    /\ spare \in BSeq(Bytes, MaxSpare)
    /\ modified = TextModified
    /\ fileSize = Len(modified)
    /\ ppc = "main" /\ cpc = "main"
    /\ InitCommon

\* the steps the pipeline takes on the text pair (ApplyOps' slice
\* expressions stay within capacity there: C14_TextScenario checks it)
NextText ==
    \/ TestSync
    \/ DiffStart
    \/ DiffMiss
    \/ DiffMatch
    \/ DiffSendData
    \/ DiffSendBlock
    \/ DiffExit
    \/ DiffSendFinal
    \/ DiffClose
    \/ ApplyStart
    \/ ApplyRecv
    \/ ApplyBlock
    \/ ApplyData
    \/ ApplyReturn

SpecText == InitText /\ [][NextText]_vars

\* the inserted bytes "extra "
Extra == <<101, 120, 116, 114, 97, 32>>

\* x occurs in d as a run of consecutive bytes
Contains(d, x) ==
    \E k \in 0..(Len(d) - Len(x)) : SubSeq(d, k + 1, k + Len(x)) = x

\* a BLOCK operation that reuses a block of "text\r\n", the tail of original
\* after the insertion point (reference blocks 3, 4, 5 lie wholly in it)
ReusesTailBlock ==
    \E k \in 1..Len(sent) :
        sent[k].opCode = BLOCK /\ sent[k].blockIndex \in 3..(nBlocks - 1)

\* C14 as stated: on the text pair ApplyOps reproduces modified, some DATA
\* operation spans the inserted bytes "extra ", and some BLOCK operation
\* reuses a tail block of original.
C14_DataSpansInsertion ==
    Finished =>
        /\ result = modified
        /\ \E k \in 1..Len(sent) :
            sent[k].opCode = DATA /\ Contains(sent[k].data, Extra)
        /\ ReusesTailBlock

\* C14, amended: on the text pair ApplyOps never panics and reproduces
\* modified; the stream holds a DATA operation carrying bytes of the inserted
\* "extra " and nothing else, none spanning all of it (its "ex" is a reference
\* block and is sent as BLOCK), and a BLOCK operation reusing a tail block.
C14_TextScenario ==
    /\ cpc = "apply" => OpInCap(op)
    /\ Finished =>
        /\ result = modified
        /\ \E k \in 1..Len(sent) :
            /\ sent[k].opCode = DATA
            /\ sent[k].data # <<>>
            /\ Contains(Extra, sent[k].data)
        /\ \A k \in 1..Len(sent) :
            sent[k].opCode = DATA => ~Contains(sent[k].data, Extra)
        /\ ReusesTailBlock

C14_Witness ==
    /\ Finished
    /\ result = TextModified
    /\ \E k \in 1..Len(sent) : sent[k] = DataOp(<<116, 114, 97>>)
    /\ \E k \in 1..Len(sent) : sent[k] = BlockOp(4)

\* bytes lo..hi-1 (0-based) of the reference content
Chunk(lo, hi) == [k \in 1..(hi - lo) |-> original[lo + k]]

\* C15: block hasher - the hash list CalculateBlockHashes returns for the
\* reference has ceil(len/BlockSize) entries; entry i has index i and the
\* strong and weak hash of content[i*BlockSize : min((i+1)*BlockSize, len)],
\* so a trailing entry is hashed over exactly the remainder bytes; the
\* content is never changed.
C15_BlockHasher ==
    /\ [](ppc # "main" =>
            /\ Len(hashes) = (Len(original) + BlockSize - 1) \div BlockSize
            /\ \A i \in 0..(Len(hashes) - 1) :
                LET lo == i * BlockSize
                    hi == IF (i + 1) * BlockSize <= Len(original)
                          THEN (i + 1) * BlockSize ELSE Len(original)
                    c == Chunk(lo, hi)
                IN /\ hashes[i + 1].index = i
                   /\ hashes[i + 1].strongHash = strongHash(c)
                   /\ hashes[i + 1].weakHash =
                        (SigmaA(c, Len(c)) % 65536)
                            + 65536 * (SigmaB(c, Len(c)) % 65536)
            /\ Len(original) % BlockSize # 0 =>
                Len(hashes[Len(hashes)].strongHash) = Len(original) % BlockSize)
    /\ [][original' = original /\ spare' = spare]_vars

C15_Witness ==
    /\ ppc # "main"
    /\ Len(original) = 3
    /\ Len(hashes) = 2
    /\ hashes[2].strongHash = <<original[3]>>
    /\ hashes[2].weakHash = 255 + 65536 * 255

\* C16: window definition - at every iteration of the loop the window that
\* is hashed and compared is content[offset : min(offset+BlockSize, len)],
\* and it is not empty.
C16_WindowDefinition ==
    (ppc = "loop" /\ offset < Len(modified)) =>
        /\ Block(offset) = WindowAt(offset)
        /\ Block(offset) # <<>>

\* C17: match step - the step that completes a match leaves offset and
\* previousMatch at the window's end, dirty false and isRolling false; at
\* every loop head dirty is false exactly when previousMatch = offset, and
\* offset is at most len(content).
C17_MatchStep ==
    /\ [][(ppc = "sendBlock" /\ ppc' = "loop") =>
            /\ offset' = endingByte
            /\ previousMatch' = endingByte
            /\ ~dirty' /\ ~isRolling'
         ]_vars
    /\ [](ppc = "loop" =>
            /\ ~dirty <=> previousMatch = offset
            /\ offset <= Len(modified))

\* C18: first match - the block index of a match is a valid reference
\* index, that reference block has the bytes of the matched window, and no
\* reference block with a smaller index has them; every BLOCK operation sent
\* carries a valid reference index.
C18_FirstMatch ==
    /\ ppc \in {"sendData", "sendBlock"} =>
        /\ found \in 0..(nBlocks - 1)
        /\ RefBlock(found) = Block(offset)
        /\ \A j \in 0..(found - 1) : RefBlock(j) # Block(offset)
    /\ \A k \in 1..Len(sent) :
        sent[k].opCode = BLOCK => sent[k].blockIndex \in 0..(nBlocks - 1)

\* a match with two reference blocks equal to the window
C18_Witness ==
    /\ ppc = "sendBlock"
    /\ found = 0
    /\ RefBlock(1) = Block(offset)
    /\ nBlocks = 2

\* C19: termination - offset only grows, by 1 or by BlockSize, and the pair
\* never stops anywhere but with the stream closed and ApplyOps returned:
\* in every other state some step is enabled.
C19_Termination ==
    /\ [][offset' # offset => offset' \in {offset + 1, offset + BlockSize}]_vars
    /\ [](Finished \/ ENABLED Next)

\* the operations CalculateDifferences sends when run alone from offset o
\* with previousMatch pm, half sums a and b, dirty d and isRolling r
RECURSIVE SeqDiff(_, _, _, _, _, _)
SeqDiff(o, pm, a, b, d, r) ==
    IF o >= Len(modified)
    THEN IF d THEN <<DataOp(Slice(modified, pm, Len(modified)))>> ELSE <<>>
    ELSE LET e == EndingByte(o)
             h == IF ~r THEN weakHash(Block(o))
                  ELSE LET a2 == (a - modified[o] + modified[e]) % M
                           b2 == (b - (e - o) * modified[o] + a2) % M
                       IN <<a2 + M * b2, a2, b2>>
             m == IF h[1] \in DOMAIN hashesMap
                  THEN searchStrongHash(hashesMap[h[1]], strongHash(Block(o)))
                  ELSE <<FALSE, 0>>
         IN IF m[1]
            THEN (IF d THEN <<DataOp(Slice(modified, pm, o))>> ELSE <<>>)
                    \o <<BlockOp(m[2])>>
                    \o SeqDiff(o + BlockSize, e, h[2], h[3], FALSE, FALSE)
            ELSE SeqDiff(o + 1, pm, h[2], h[3], TRUE, TRUE)

\* <<result, offset>> of ApplyOps after the operations ops, applied in order
\* to res with the cursor at off
RECURSIVE SeqApply(_, _, _)
SeqApply(ops, res, off) ==
    IF ops = <<>> THEN <<res, off>>
    ELSE LET o == Head(ops)
         IN IF o.opCode = BLOCK
            THEN SeqApply(Tail(ops),
                          Copy(res, off, BlockSize,
                               Slice(Backing, o.blockIndex * BlockSize,
                                     o.blockIndex * BlockSize + BlockSize)),
                          off + BlockSize)
            ELSE SeqApply(Tail(ops),
                          Copy(res, off, fileSize - off, o.data),
                          off + Len(o.data))

\* operations sent that ApplyOps has applied so far
Applied ==
    Len(sent) - Len(queue) - (IF cpc \in {"apply", "panic"} THEN 1 ELSE 0)

====
